---- MODULE Spec2Model ----
(***************************************************************************)
(* Model of app1.py, a Streamlit dashboard script.  Every user interaction *)
(* re-executes the script from its first line in a fresh namespace; the    *)
(* model follows one script run statement block by statement block         *)
(* (variable pc) and records what the run puts on the page.                *)
(*                                                                         *)
(* Python values are modelled as follows.                                  *)
(*   - a dict is a function whose DOMAIN is its set of keys;               *)
(*   - a scalar is a record [t, s, n]: Str(s) or Num(n);                   *)
(*   - the script's namespace is the set `bound` of the names an           *)
(*     assignment has bound so far in this run; reading a name outside it  *)
(*     is a NameError.                                                     *)
(***************************************************************************)
EXTENDS Naturals, Sequences, FiniteSets, TLC

\* ---------------------------------------------------------------- bounds
MaxTickerLen == 1      \* longest raw text typed into the ticker box
MaxRatings == 2        \* most analyst ratings counted in one trend sequence
MaxRecs == 2           \* longest recommendation trend sequence

\* ---------------------------------------------------------------- values
Str(s) == [t |-> "str", s |-> s, n |-> 0]
Num(n) == [t |-> "num", s |-> "", n |-> n]

EmptyDict == [k \in {} |-> Str("")]

\* dict.get(key, default)
Get(d, k, default) == IF k \in DOMAIN d THEN d[k] ELSE default

\* the dict {"error": msg}
ErrorDict(msg) == [k \in {"error"} |-> Str(msg)]

\* ------------------------------------------------- number formatting
Digit == <<"0", "1", "2", "3", "4", "5", "6", "7", "8", "9">>

RECURSIVE Digits(_)
\* decimal digits of n, no separators
Digits(n) == IF n < 10 THEN Digit[n + 1] ELSE Digits(n \div 10) \o Digit[(n % 10) + 1]

\* three digits of n, zero padded
Pad3(n) == Digit[(n \div 100) + 1] \o Digit[((n \div 10) % 10) + 1] \o Digit[(n % 10) + 1]

RECURSIVE Grouped(_)
\* decimal digits of n with a comma between groups of three
Grouped(n) == IF n < 1000 THEN Digits(n) ELSE Grouped(n \div 1000) \o "," \o Pad3(n % 1000)

\* f'{v:,.2f}' for a whole number v
Format2f(v) == Grouped(v.n) \o ".00"

\* ------------------------------------------------------ ticker text
TickerChars == {"a", "A", " "}

RawTickers == UNION {[1..n -> TickerChars] : n \in 0..MaxTickerLen}

UpperChar(c) == IF c = "a" THEN "A" ELSE c

\* str.upper()
Upper(text) == [i \in 1..Len(text) |-> UpperChar(text[i])]

RECURSIVE LStrip(_)
LStrip(text) == IF text # <<>> /\ Head(text) = " " THEN LStrip(Tail(text)) ELSE text

RECURSIVE RStrip(_)
RStrip(text) ==
    IF text # <<>> /\ text[Len(text)] = " " THEN RStrip(SubSeq(text, 1, Len(text) - 1)) ELSE text

\* str.strip()
Strip(text) == RStrip(LStrip(text))

RECURSIVE Join(_)
\* the characters of text as one string
Join(text) == IF text = <<>> THEN "" ELSE Head(text) \o Join(Tail(text))

ChartTypes == {"Bar", "Line", "Pie"}

\* ------------------------------------------------------ credential
\* os.getenv returns None (present = FALSE) or the variable's text
ApiKeys == {[present |-> FALSE, value |-> ""],
            [present |-> TRUE, value |-> ""],
            [present |-> TRUE, value |-> "key"]}

\* a test for None only: the empty string passes
TruthyNotNone(key) == key.present

\* Python truth value of the result of os.getenv
Truthy(key) == key.present /\ key.value # ""

\* ------------------------------------------------- provider payloads
ProfileFields == {"name", "ticker", "finnhubIndustry", "country", "exchange",
                  "marketCapitalization", "shareOutstanding", "logo", "weburl"}

ProfileValue(k) ==
    CASE k = "marketCapitalization" -> Num(2950123)
      [] k = "shareOutstanding" -> Num(15550)
      [] OTHER -> Str("<" \o k \o ">")

\* key sets of the profile payloads the provider is made to return
ProfileKeySets == {{}, ProfileFields, {"ticker", "shareOutstanding", "weburl"},
                   ProfileFields \cup {"error"}}

ProfilePayloads == {[k \in K |-> ProfileValue(k)] : K \in ProfileKeySets}

MetricKeys == <<"revenuePerShareAnnual", "netIncomeAnnual", "totalAssets", "totalLiabilities",
                "peNormalizedAnnual", "enterpriseValueOverEBITDA", "beta", "error">>

MetricValue(k) ==
    CASE k = "revenuePerShareAnnual" -> Num(24)
      [] k = "netIncomeAnnual" -> Num(97)
      [] k = "error" -> Num(3)
      [] OTHER -> Num(7)

ConsumedMetricKeys == {MetricKeys[i] : i \in 1..6}

\* key sets of the "metric" mappings the provider is made to return
MetricKeySets == {{}, ConsumedMetricKeys \cup {"beta"}, {"netIncomeAnnual", "beta"},
                  ConsumedMetricKeys \cup {"error"}}

MetricPayloads == {[k \in K |-> MetricValue(k)] : K \in MetricKeySets}

TrendFields == {"buy", "hold", "sell"}

\* trend records with every count, and records lacking one of them
FullRecords == [TrendFields -> 0..MaxRatings]

PartialRecords == {[k \in TrendFields \ {f} |-> 1] : f \in TrendFields}

TrendRecords == FullRecords \cup PartialRecords

RECURSIVE SetSum(_, _)
\* sum of rec[k] over the keys k of K
SetSum(rec, K) == IF K = {} THEN 0 ELSE LET k == CHOOSE x \in K : TRUE IN rec[k] + SetSum(rec, K \ {k})

RECURSIVE Ratings(_)
\* number of analyst ratings counted in a trend list
Ratings(l) == IF l = <<>> THEN 0 ELSE SetSum(Head(l), DOMAIN Head(l)) + Ratings(Tail(l))

TrendLists == {l \in UNION {[1..n -> TrendRecords] : n \in 0..MaxRecs} : Ratings(l) <= MaxRatings}

Exceptions == {"timeout"}

\* what one provider call does: raise, or return a body
Raise(e) == [raised |-> TRUE, exc |-> e, hasMetric |-> FALSE, body |-> EmptyDict, list |-> <<>>]

ProfileResponses ==
    {Raise(e) : e \in Exceptions} \cup
    {[raised |-> FALSE, exc |-> "", hasMetric |-> FALSE, body |-> p, list |-> <<>>] :
        p \in ProfilePayloads}

MetricsResponses ==
    {Raise(e) : e \in Exceptions} \cup
    {[raised |-> FALSE, exc |-> "", hasMetric |-> FALSE, body |-> EmptyDict, list |-> <<>>]} \cup
    {[raised |-> FALSE, exc |-> "", hasMetric |-> TRUE, body |-> m, list |-> <<>>] :
        m \in MetricPayloads}

RecommendationResponses ==
    {Raise(e) : e \in Exceptions} \cup
    {[raised |-> FALSE, exc |-> "", hasMetric |-> FALSE, body |-> EmptyDict, list |-> l] :
        l \in TrendLists}

NoResponse == [raised |-> FALSE, exc |-> "", hasMetric |-> FALSE, body |-> EmptyDict, list |-> <<>>]

\* ------------------------------------------------------------ adapters
\* the value of `recommendations`: a list of records, or a dict
AsList(l) == [isList |-> TRUE, list |-> l, dict |-> EmptyDict]
AsDict(d) == [isList |-> FALSE, list |-> <<>>, dict |-> d]

fetch_company_profile(r) ==
    IF r.raised THEN ErrorDict("Error fetching company profile: " \o r.exc)
    ELSE r.body

fetch_detailed_metrics(r) ==
    IF r.raised THEN ErrorDict(r.exc)
    ELSE IF ~r.hasMetric \/ DOMAIN r.body = {}
         THEN ErrorDict("No metrics available for this ticker")
         ELSE r.body

fetch_recommendations(r) ==
    IF r.raised THEN AsDict(ErrorDict(r.exc))
    ELSE IF r.list = <<>>
         THEN AsDict(ErrorDict("No recommendations available"))
         ELSE AsList(r.list)

\* "error" in d, for a dict d
HasError(d) == "error" \in DOMAIN d

\* "error" in recommendations: key membership for a dict, element membership
\* for a list (whose elements are dicts, never the string "error")
RecsHasError(r) == IF r.isList THEN FALSE ELSE HasError(r.dict)

\* ------------------------------------------------ presentation builder
\* the rows of the profile table
profile_data(profile) ==
    << <<"Name", Get(profile, "name", Str("N/A"))>>,
       <<"Ticker", Get(profile, "ticker", Str("N/A"))>>,
       <<"Industry", Get(profile, "finnhubIndustry", Str("N/A"))>>,
       <<"Country", Get(profile, "country", Str("N/A"))>>,
       <<"Exchange", Get(profile, "exchange", Str("N/A"))>>,
       <<"Market Cap (in Billion)", Str(Format2f(Get(profile, "marketCapitalization", Num(0))))>>,
       <<"Share Outstanding", Str(Format2f(Get(profile, "shareOutstanding", Num(0))))>> >>

income_data(metrics) ==
    << <<"Revenue Per Share", Get(metrics, "revenuePerShareAnnual", Str("N/A"))>>,
       <<"Net Income", Get(metrics, "netIncomeAnnual", Str("N/A"))>> >>

balance_data(metrics) ==
    << <<"Total Assets", Get(metrics, "totalAssets", Str("N/A"))>>,
       <<"Total Liabilities", Get(metrics, "totalLiabilities", Str("N/A"))>> >>

valuation_data(metrics) ==
    << <<"P/E Ratio", Get(metrics, "peNormalizedAnnual", Str("N/A"))>>,
       <<"EV/EBITDA", Get(metrics, "enterpriseValueOverEBITDA", Str("N/A"))>> >>

\* v if isinstance(v, (int, float)) else 0
Coerce(v) == IF v.t = "num" THEN v.n ELSE 0

\* the data frame behind the chart: one <<Metric, Value>> row per income entry
chart_data(income) == [i \in 1..Len(income) |-> <<income[i][1], Coerce(income[i][2])>>]

\* the plotly figure chosen by chart_type
Figure(chart, data) ==
    [kind |-> CASE chart = "Bar" -> "bar" [] chart = "Line" -> "line" [] chart = "Pie" -> "pie",
     data |-> data]

RECURSIVE SumField(_, _)
\* sum([rec[f] for rec in recs])
SumField(recs, f) == IF recs = <<>> THEN 0 ELSE Head(recs)[f] + SumField(Tail(recs), f)

\* rec[f] raises KeyError for some rec of the list
KeyMissing(recs, f) == \E i \in 1..Len(recs) : f \notin DOMAIN recs[i]

\* the chain with >= in place of >: a tie at the top picks a label
InsightLabelTies(b, h, s) ==
    IF b >= s /\ b >= h THEN "Strong Buy"
    ELSE IF h >= b /\ h >= s THEN "Hold"
    ELSE IF s >= b /\ s >= h THEN "Sell"
    ELSE "No clear recommendation"

\* the if/elif chain of the Insights tab
InsightLabel(b, h, s) ==
    IF b > s /\ b > h THEN "Strong Buy"
    ELSE IF h > b /\ h > s THEN "Hold"
    ELSE IF s > b /\ s > h THEN "Sell"
    ELSE "No clear recommendation"

\* the guard without the check of the metrics result
DownloadGuardFlagOnly(option, metrics) == option

\* guard of the Data Download block
DownloadGuard(option, metrics) == option /\ ~HasError(metrics)

\* keys of a metrics dict in the provider's order
KeyList(d) == SelectSeq(MetricKeys, LAMBDA k : k \in DOMAIN d)

\* metrics_data.to_csv(index=False): header row, then one row per key
to_csv(d) == << <<"Metric", Str("Value")>> >> \o [i \in 1..Len(KeyList(d)) |-> <<KeyList(d)[i], d[KeyList(d)[i]]>>]

\* ---------------------------------------------------------------- state
VARIABLES
    apiKey,           \* FINNHUB_API_KEY of the process environment
    pc,               \* position of the current script run
    bound,            \* names bound in the current run's namespace
    ticker, chart_type, download_option, button,      \* sidebar inputs as read
    profile, metrics, recommendations,                \* adapter results
    buy, hold, sell,                                  \* recommendation totals
    profileTab, metricsTab, recsTab, insight,         \* what the tabs show
    download,         \* the sidebar download button and its CSV
    outcome,          \* how the run ended, "running" until then
    exception,        \* uncaught exception that ended the run
    called,           \* provider endpoints called in this run
    resp,             \* what the provider did for each call of this run
    earlierTotals     \* history: an earlier run of the session computed totals

inputs == <<ticker, chart_type, download_option, button>>
results == <<profile, metrics, recommendations>>
totals == <<buy, hold, sell>>
page == <<profileTab, metricsTab, recsTab, insight, download, outcome, exception>>
vars == <<apiKey, pc, bound, inputs, results, totals, page, called, resp, earlierTotals>>

NoSection == [kind |-> "none", message |-> Str(""), rows |-> <<>>, logo |-> FALSE, link |-> FALSE]
NoMetrics == [kind |-> "none", message |-> Str(""), income |-> <<>>, balance |-> <<>>,
              valuation |-> <<>>, fig |-> [kind |-> "none", data |-> <<>>]]
NoRecs == [kind |-> "none", message |-> Str(""), buy |-> 0, hold |-> 0, sell |-> 0]
NoDownload == [offered |-> FALSE, file_name |-> "", csv |-> <<>>]
Endpoints == {"profile", "metrics", "recommendations"}

\* a run that keeps the totals of the run before it in its namespace
FreshKeepsTotals ==
    /\ bound' = bound \cap {"buy", "hold", "sell"}
    /\ ticker' = <<>> /\ chart_type' = "Bar" /\ download_option' = FALSE /\ button' = FALSE
    /\ profile' = EmptyDict /\ metrics' = EmptyDict /\ recommendations' = AsList(<<>>)
    /\ UNCHANGED <<buy, hold, sell>>
    /\ profileTab' = NoSection /\ metricsTab' = NoMetrics /\ recsTab' = NoRecs
    /\ insight' = "none" /\ download' = NoDownload /\ outcome' = "running" /\ exception' = "none"
    /\ called' = {}
    /\ resp' = [e \in Endpoints |-> NoResponse]

\* a script run starts with an empty namespace and an empty page
Fresh ==
    /\ bound' = {}
    /\ ticker' = <<>> /\ chart_type' = "Bar" /\ download_option' = FALSE /\ button' = FALSE
    /\ profile' = EmptyDict /\ metrics' = EmptyDict /\ recommendations' = AsList(<<>>)
    /\ buy' = 0 /\ hold' = 0 /\ sell' = 0
    /\ profileTab' = NoSection /\ metricsTab' = NoMetrics /\ recsTab' = NoRecs
    /\ insight' = "none" /\ download' = NoDownload /\ outcome' = "running" /\ exception' = "none"
    /\ called' = {}
    /\ resp' = [e \in Endpoints |-> NoResponse]

Init ==
    /\ apiKey \in ApiKeys
    /\ pc = "idle"
    /\ bound = {}
    /\ ticker = <<>> /\ chart_type = "Bar" /\ download_option = FALSE /\ button = FALSE
    /\ profile = EmptyDict /\ metrics = EmptyDict /\ recommendations = AsList(<<>>)
    /\ buy = 0 /\ hold = 0 /\ sell = 0
    /\ profileTab = NoSection /\ metricsTab = NoMetrics /\ recsTab = NoRecs
    /\ insight = "none" /\ download = NoDownload /\ outcome = "none" /\ exception = "none"
    /\ called = {}
    /\ resp = [e \in Endpoints |-> NoResponse]
    /\ earlierTotals = FALSE

\* Python truth value of a scalar
PyTrue(v) == IF v.t = "num" THEN v.n # 0 ELSE v.s # ""

\* ticker = st.sidebar.text_input(...).upper().strip()
Normalize(raw) == Strip(Upper(raw))

\* --------------------------------------------------------------- actions
\* A user interaction (or page load) starts a new run of the script.
Rerun ==
    /\ pc = "idle"
    /\ Fresh
    /\ pc' = "credential"
    /\ earlierTotals' = (earlierTotals \/ {"buy", "hold", "sell"} \subseteq bound)
    /\ UNCHANGED apiKey

\* lines 12-19: stop the run when the credential is missing or empty
CheckCredential ==
    /\ pc = "credential"
    /\ IF ~Truthy(apiKey)
       THEN /\ outcome' = "stopped"
            /\ pc' = "idle"
       ELSE /\ outcome' = outcome
            /\ pc' = "inputs"
    /\ UNCHANGED <<apiKey, bound, inputs, results, totals, profileTab, metricsTab, recsTab,
                   insight, download, exception, called, resp, earlierTotals>>

\* lines 55-62: read the sidebar, then the button and the empty-ticker check
ReadInputs ==
    /\ pc = "inputs"
    /\ \E raw \in RawTickers, c \in ChartTypes, d \in BOOLEAN, pressed \in BOOLEAN :
        /\ ticker' = Normalize(raw)
        /\ chart_type' = c
        /\ download_option' = d
        /\ button' = pressed
        /\ bound' = bound \cup {"ticker", "chart_type", "download_option"}
        /\ IF ~pressed
           THEN outcome' = "no_action" /\ pc' = "idle"
           ELSE IF ticker' = <<>>
                THEN outcome' = "prompt" /\ pc' = "idle"
                ELSE outcome' = outcome /\ pc' = "fetch_profile"
    /\ UNCHANGED <<apiKey, results, totals, profileTab, metricsTab, recsTab, insight, download,
                   exception, called, resp, earlierTotals>>

\* line 66
FetchProfile ==
    /\ pc = "fetch_profile"
    /\ \E r \in ProfileResponses :
        /\ resp' = [resp EXCEPT !["profile"] = r]
        /\ profile' = fetch_company_profile(r)
    /\ called' = called \cup {"profile"}
    /\ bound' = bound \cup {"profile"}
    /\ pc' = "fetch_metrics"
    /\ UNCHANGED <<apiKey, inputs, metrics, recommendations, totals, page, earlierTotals>>

\* line 67
FetchMetrics ==
    /\ pc = "fetch_metrics"
    /\ \E r \in MetricsResponses :
        /\ resp' = [resp EXCEPT !["metrics"] = r]
        /\ metrics' = fetch_detailed_metrics(r)
    /\ called' = called \cup {"metrics"}
    /\ bound' = bound \cup {"metrics"}
    /\ pc' = "fetch_recommendations"
    /\ UNCHANGED <<apiKey, inputs, profile, recommendations, totals, page, earlierTotals>>

\* line 68
FetchRecommendations ==
    /\ pc = "fetch_recommendations"
    /\ \E r \in RecommendationResponses :
        /\ resp' = [resp EXCEPT !["recommendations"] = r]
        /\ recommendations' = fetch_recommendations(r)
    /\ called' = called \cup {"recommendations"}
    /\ bound' = bound \cup {"recommendations"}
    /\ pc' = "profile_tab"
    /\ UNCHANGED <<apiKey, inputs, profile, metrics, totals, page, earlierTotals>>

\* lines 74-95
ProfileTab ==
    /\ pc = "profile_tab"
    /\ profileTab' =
         IF HasError(profile)
         THEN [NoSection EXCEPT !.kind = "error", !.message = profile["error"]]
         ELSE [kind |-> "table", message |-> Str(""), rows |-> profile_data(profile),
               logo |-> PyTrue(Get(profile, "logo", Str(""))),
               link |-> PyTrue(Get(profile, "weburl", Str("")))]
    /\ pc' = "metrics_tab"
    /\ UNCHANGED <<apiKey, bound, inputs, results, totals, metricsTab, recsTab, insight, download,
                   outcome, exception, called, resp, earlierTotals>>

\* the Metrics tab nested under the success branch of the Profile tab
MetricsTabNested ==
    /\ pc = "metrics_tab"
    /\ metricsTab' =
         IF HasError(profile) THEN metricsTab
         ELSE IF HasError(metrics)
         THEN [NoMetrics EXCEPT !.kind = "error", !.message = metrics["error"]]
         ELSE [kind |-> "table", message |-> Str(""),
               income |-> income_data(metrics),
               balance |-> balance_data(metrics),
               valuation |-> valuation_data(metrics),
               fig |-> Figure(chart_type, chart_data(income_data(metrics)))]
    /\ pc' = "recommendations_tab"
    /\ UNCHANGED <<apiKey, bound, inputs, results, totals, profileTab, recsTab, insight, download,
                   outcome, exception, called, resp, earlierTotals>>

\* lines 98-135
MetricsTab ==
    /\ pc = "metrics_tab"
    /\ metricsTab' =
         IF HasError(metrics)
         THEN [NoMetrics EXCEPT !.kind = "error", !.message = metrics["error"]]
         ELSE [kind |-> "table", message |-> Str(""),
               income |-> income_data(metrics),
               balance |-> balance_data(metrics),
               valuation |-> valuation_data(metrics),
               fig |-> Figure(chart_type, chart_data(income_data(metrics)))]
    /\ pc' = "recommendations_tab"
    /\ UNCHANGED <<apiKey, bound, inputs, results, totals, profileTab, recsTab, insight, download,
                   outcome, exception, called, resp, earlierTotals>>

\* the names lines 143-145 bind before one of them raises KeyError
BoundBySums(recs) ==
    IF KeyMissing(recs, "buy") THEN {}
    ELSE IF KeyMissing(recs, "hold") THEN {"buy"}
    ELSE IF KeyMissing(recs, "sell") THEN {"buy", "hold"}
    ELSE {"buy", "hold", "sell"}

\* lines 138-154
RecommendationsTab ==
    /\ pc = "recommendations_tab"
    /\ IF RecsHasError(recommendations)
       THEN /\ recsTab' = [NoRecs EXCEPT !.kind = "error", !.message = recommendations.dict["error"]]
            /\ UNCHANGED <<bound, totals, exception, outcome>>
            /\ pc' = "insights_tab"
       ELSE LET recs == recommendations.list
                names == BoundBySums(recs)
            IN /\ bound' = bound \cup names
               /\ buy' = IF "buy" \in names THEN SumField(recs, "buy") ELSE buy
               /\ hold' = IF "hold" \in names THEN SumField(recs, "hold") ELSE hold
               /\ sell' = IF "sell" \in names THEN SumField(recs, "sell") ELSE sell
               /\ IF names = {"buy", "hold", "sell"}
                  THEN /\ recsTab' = [NoRecs EXCEPT !.kind = "totals", !.buy = buy',
                                                    !.hold = hold', !.sell = sell']
                       /\ UNCHANGED <<exception, outcome>>
                       /\ pc' = "insights_tab"
                  ELSE /\ recsTab' = [NoRecs EXCEPT !.kind = "heading"]
                       /\ exception' = "KeyError"
                       /\ outcome' = "raised"
                       /\ pc' = "idle"
    /\ UNCHANGED <<apiKey, inputs, results, profileTab, metricsTab, insight, download,
                   called, resp, earlierTotals>>

\* lines 157-166: the comparison reads buy, sell and hold from the namespace
InsightsTab ==
    /\ pc = "insights_tab"
    /\ IF {"buy", "sell", "hold"} \subseteq bound
       THEN /\ insight' = InsightLabel(buy, hold, sell)
            /\ UNCHANGED <<exception, outcome>>
            /\ pc' = "data_download"
       ELSE /\ exception' = "NameError"
            /\ outcome' = "raised"
            /\ UNCHANGED insight
            /\ pc' = "idle"
    /\ UNCHANGED <<apiKey, bound, inputs, results, totals, profileTab, metricsTab, recsTab,
                   download, called, resp, earlierTotals>>

\* lines 169-179
DataDownload ==
    /\ pc = "data_download"
    /\ download' =
         IF DownloadGuard(download_option, metrics)
         THEN [offered |-> TRUE, file_name |-> Join(ticker) \o "_metrics.csv",
               csv |-> to_csv(metrics)]
         ELSE download
    /\ outcome' = "completed"
    /\ pc' = "idle"
    /\ UNCHANGED <<apiKey, bound, inputs, results, totals, profileTab, metricsTab, recsTab,
                   insight, exception, called, resp, earlierTotals>>

Next ==
    \/ Rerun
    \/ CheckCredential
    \/ ReadInputs
    \/ FetchProfile
    \/ FetchMetrics
    \/ FetchRecommendations
    \/ ProfileTab
    \/ MetricsTab
    \/ RecommendationsTab
    \/ InsightsTab
    \/ DataDownload

Spec == Init /\ [][Next]_vars

TypeOK ==
    /\ pc \in {"idle", "credential", "inputs", "fetch_profile", "fetch_metrics",
               "fetch_recommendations", "profile_tab", "metrics_tab", "recommendations_tab",
               "insights_tab", "data_download"}
    /\ outcome \in {"none", "running", "stopped", "no_action", "prompt", "completed", "raised"}
    /\ exception \in {"none", "KeyError", "NameError"}
    /\ called \subseteq Endpoints

\* ------------------------------------------------------------ properties
\* the branch the adapter of endpoint e took on the provider's response
AdapterFailed(e) ==
    CASE e = "profile" -> resp[e].raised
      [] e = "metrics" -> resp[e].raised \/ ~resp[e].hasMetric \/ DOMAIN resp[e].body = {}
      [] e = "recommendations" -> resp[e].raised \/ resp[e].list = <<>>

\* the run made all its fetches and is over
RunOver == pc = "idle" /\ called = Endpoints

\* every record of the trend list has its three counts
CompleteRecords(recs) == \A i \in 1..Len(recs) : DOMAIN recs[i] = TrendFields

\* C1: whenever the Insights step has compared three totals it shows exactly
\* one of the four labels: Strong Buy iff buy is the strict maximum, Hold iff
\* hold is, Sell iff sell is, and No clear recommendation in every other
\* case; and once the totals are there the step always shows a label.
C1_InsightRule ==
    /\ insight # "none" =>
         /\ insight \in {"Strong Buy", "Hold", "Sell", "No clear recommendation"}
         /\ (insight = "Strong Buy") <=> (buy > hold /\ buy > sell)
         /\ (insight = "Hold") <=> (hold > buy /\ hold > sell)
         /\ (insight = "Sell") <=> (sell > buy /\ sell > hold)
         /\ (insight = "No clear recommendation") <=>
               ~ \/ (buy > hold /\ buy > sell)
                 \/ (hold > buy /\ hold > sell)
                 \/ (sell > buy /\ sell > hold)
    /\ (pc = "data_download" \/ outcome = "completed") => insight # "none"

\* a tie for the maximum between buy and hold, shown as no consensus
C1_Witness ==
    /\ outcome = "completed"
    /\ insight = "No clear recommendation"
    /\ buy = hold /\ buy > sell

\* C2 (as claimed): a run whose recommendation fetch yielded no data ends
\* with the totals (0,0,0) and the label No clear recommendation.
C2_EmptyTrendNoConsensus ==
    (RunOver /\ AdapterFailed("recommendations")) =>
        /\ {"buy", "hold", "sell"} \subseteq bound
        /\ <<buy, hold, sell>> = <<0, 0, 0>>
        /\ insight = "No clear recommendation"

\* C3 (as claimed): whatever fetches fail, a run that made its fetches goes
\* through the four tabs and reaches the export decision without an uncaught
\* exception (trend records taken to be complete).
C3_FailuresNeverAbort ==
    (RunOver /\ CompleteRecords(resp["recommendations"].list)) =>
        /\ exception = "none"
        /\ outcome = "completed"
        /\ profileTab.kind # "none" /\ metricsTab.kind # "none" /\ recsTab.kind # "none"
        /\ insight # "none"

\* the tab of endpoint e shows what e's own result calls for
OwnSection(e) ==
    CASE e = "profile" ->
            /\ profile = fetch_company_profile(resp[e])
            /\ profileTab.kind = IF AdapterFailed(e) \/ HasError(profile) THEN "error" ELSE "table"
      [] e = "metrics" ->
            /\ metrics = fetch_detailed_metrics(resp[e])
            /\ metricsTab.kind = IF AdapterFailed(e) \/ HasError(metrics) THEN "error" ELSE "table"
      [] e = "recommendations" ->
            /\ recommendations = fetch_recommendations(resp[e])
            /\ recsTab.kind = IF AdapterFailed(e) THEN "error"
                              ELSE IF CompleteRecords(resp[e].list) THEN "totals"
                              ELSE "heading"

\* C4: when an adapter returned a Failure, the other two adapters were still
\* called, each holds the result of its own provider response, and each one's
\* tab shows that result: the table or totals for a payload, its own message
\* for a failure of its own.
C4_FailureIsolated ==
    RunOver =>
        \A a \in Endpoints : AdapterFailed(a) =>
            \A b \in Endpoints \ {a} : b \in called /\ OwnSection(b)

\* the profile fetch failed; the metrics table and the totals are shown
C4_Witness ==
    /\ RunOver
    /\ AdapterFailed("profile")
    /\ profileTab.kind = "error"
    /\ metricsTab.kind = "table"
    /\ recsTab.kind = "totals"

\* C5: a CSV is offered only in a run where the download flag is set and the
\* metrics adapter returned a payload.
C5_ExportOnlyIf ==
    download.offered =>
        /\ download_option
        /\ "metrics" \in called
        /\ ~AdapterFailed("metrics")
        /\ metrics = resp["metrics"].body

\* a run that offered the CSV
C5_Witness ==
    /\ outcome = "completed"
    /\ download.offered
    /\ Len(download.csv) > 1

\* C6: a provider call is made only with a credential that is present and
\* non-empty and a pressed button with a ticker that is non-empty after
\* trimming; a run stopped for the credential reads no input and calls
\* nothing, and a run that shows the empty-ticker prompt calls nothing.
C6_CallsGuarded ==
    /\ called # {} =>
         /\ apiKey.present /\ apiKey.value # ""
         /\ button
         /\ Strip(ticker) # <<>>
    /\ ~(apiKey.present /\ apiKey.value # "") =>
         /\ pc \in {"idle", "credential"}
         /\ bound = {}
         /\ outcome \in {"none", "running", "stopped"}
    /\ outcome = "prompt" => called = {} /\ pc = "idle"

\* the button was pressed with a blank ticker: prompt, no call
C6_Witness ==
    /\ outcome = "prompt"
    /\ button
    /\ called = {}

\* C7 (as claimed): each adapter returns a Failure when the provider raises,
\* a Failure when the provider returns an empty or absent payload, and the
\* payload itself otherwise.
C7_AdapterContract ==
    /\ "profile" \in called =>
         LET r == resp["profile"] IN
         IF r.raised \/ DOMAIN r.body = {}
         THEN DOMAIN profile = {"error"}
         ELSE profile = r.body
    /\ "metrics" \in called =>
         LET r == resp["metrics"] IN
         IF r.raised \/ ~r.hasMetric \/ DOMAIN r.body = {}
         THEN DOMAIN metrics = {"error"}
         ELSE metrics = r.body
    /\ "recommendations" \in called =>
         LET r == resp["recommendations"] IN
         IF r.raised \/ r.list = <<>>
         THEN ~recommendations.isList /\ DOMAIN recommendations.dict = {"error"}
         ELSE recommendations = AsList(r.list)

\* the placeholder shown for a field the payload lacks
Placeholder(table, label) ==
    \E i \in 1..Len(table) :
        /\ table[i][1] = label
        /\ table[i][2] = IF label \in {"Market Cap (in Billion)", "Share Outstanding"}
                         THEN Str("0.00") ELSE Str("N/A")

\* C8 (as claimed): for a payload lacking any of its expected fields the
\* display is built without raising, and every absent field shows its
\* placeholder.
C8_AbsentFieldsTolerated ==
    /\ (profileTab.kind = "table" /\ "name" \notin DOMAIN profile) =>
            Placeholder(profileTab.rows, "Name")
    /\ (profileTab.kind = "table" /\ "marketCapitalization" \notin DOMAIN profile) =>
            Placeholder(profileTab.rows, "Market Cap (in Billion)")
    /\ (metricsTab.kind = "table" /\ "totalAssets" \notin DOMAIN metrics) =>
            Placeholder(metricsTab.balance, "Total Assets")
    /\ (RunOver /\ ~AdapterFailed("recommendations")) =>
            /\ exception # "KeyError"
            /\ recsTab.kind = "totals"

\* C9: what a run shows comes from that run's own inputs and fetch results:
\* a label is shown only with this run's trend list and is the label of its
\* sums, the totals shown are its sums, a run whose recommendation result is a
\* failure binds no totals and shows no label, and the CSV is this run's
\* metrics under this run's ticker.
C9_NoReuse ==
    /\ insight # "none" =>
         /\ "recommendations" \in called
         /\ ~AdapterFailed("recommendations")
         /\ CompleteRecords(recommendations.list)
         /\ insight = InsightLabel(SumField(recommendations.list, "buy"),
                                   SumField(recommendations.list, "hold"),
                                   SumField(recommendations.list, "sell"))
    /\ recsTab.kind = "totals" =>
         /\ recsTab.buy = SumField(resp["recommendations"].list, "buy")
         /\ recsTab.hold = SumField(resp["recommendations"].list, "hold")
         /\ recsTab.sell = SumField(resp["recommendations"].list, "sell")
    /\ (RunOver /\ AdapterFailed("recommendations")) =>
         /\ bound \cap {"buy", "hold", "sell"} = {}
         /\ insight = "none"
    /\ "recommendations" \notin called => bound \cap {"buy", "hold", "sell"} = {}
    /\ download.offered =>
         /\ download.csv = to_csv(fetch_detailed_metrics(resp["metrics"]))
         /\ download.file_name = Join(ticker) \o "_metrics.csv"

\* an earlier run computed totals; this run's recommendation fetch failed
\* and it shows no label
C9_Witness ==
    /\ earlierTotals
    /\ RunOver
    /\ AdapterFailed("recommendations")
    /\ recsTab.kind = "error"
    /\ insight = "none"

\* C10 (as claimed): a profile or metrics mapping returned by a successful,
\* non-empty fetch is treated as Success whatever its keys: its tab shows the
\* table and, with the flag set, a completed run offers the CSV.
C10_ClassificationAgrees ==
    /\ (profileTab.kind # "none" /\ ~AdapterFailed("profile") /\ DOMAIN resp["profile"].body # {})
            => profileTab.kind = "table"
    /\ (metricsTab.kind # "none" /\ ~AdapterFailed("metrics")) => metricsTab.kind = "table"
    /\ (outcome = "completed" /\ download_option /\ ~AdapterFailed("metrics")) => download.offered

====
